---- MODULE Spec2Model ----
(***************************************************************************)
(* Quadtree<T> of src/quadtree.rs over Rect of src/rect.rs.                *)
(*                                                                         *)
(* Coordinates are f32 in the source.  The model keeps them as integer     *)
(* multiples of the smallest representable step: halving a power of two is *)
(* exact, and halving one step gives 0, as halving the least subnormal f32 *)
(* does.  A usize is kept modulo 2^64 by its representative nearest to 0,  *)
(* so the wrapped value usize::MAX of a release build is written -1.       *)
(***************************************************************************)
EXTENDS Integers, Sequences, FiniteSets, Bags, TLC

\* ------------------------------------------------------------------ bounds
\* number of ids Quadtree.insert may allocate in one behaviour
MaxId == 3
\* number of move_entry calls in one behaviour
MaxMoves == 2

\* ------------------------------------------------------------------ inputs
MkRect(x, y, w, h) == [x |-> x, y |-> y, w |-> w, h |-> h]

\* the region given to Quadtree::new
RootRegion == MkRect(0, 0, 4, 4)

\* regions with an extent that the root's region contains: inside the
\* top-left quadrant, inside the bottom-right quadrant, straddling the centre
BoxRegions == { MkRect(0, 0, 1, 1), MkRect(3, 3, 1, 1), MkRect(1, 1, 2, 2) }

\* the centre point, which lies on the boundary of all four quadrants
InRegions == BoxRegions \cup { MkRect(2, 2, 0, 0) }

\* a region the root's region does not contain
OutRegions == { MkRect(3, 3, 2, 2) }

Regions == InRegions \cup OutRegions

\* regions without extent, and the smallest box at the root's corner: the
\* corner point lies in the first quadrant of every node down to the one
\* whose own region has no extent
PointRegions == { MkRect(0, 0, 0, 0), MkRect(2, 2, 0, 0), MkRect(0, 0, 1, 1) }

\* query rectangles: the regions above, one quadrant, the root's region
Queries == InRegions \cup { MkRect(0, 0, 2, 2), MkRect(0, 0, 4, 4) }

\* values of type T
Values == { "a", "b" }

\* max_node_capacity given to Quadtree::new
Caps == { 0, 1, 2 }

Ids == 0 .. (MaxId - 1)

NoFault == "none"

\* ------------------------------------------------------------------ Rect
\* Rect::contains
Contains(self, other) ==
    /\ self.x <= other.x
    /\ self.y <= other.y
    /\ self.x + self.w >= other.x + other.w
    /\ self.y + self.h >= other.y + other.h

\* Rect::overlapps
Overlapps(self, other) ==
    /\ self.x <= other.x + other.w
    /\ self.x + self.w >= other.x
    /\ self.y <= other.y + other.h
    /\ self.y + self.h >= other.y

\* f32 division by 2.0 of a multiple of the smallest step
Half(v) == v \div 2

\* ------------------------------------------------------------------ HashMap
EmptyMap == [i \in {} |-> 0]
MapLen(m) == Cardinality(DOMAIN m)
MapInsert(m, k, v) == [i \in (DOMAIN m) \cup {k} |-> IF i = k THEN v ELSE m[i]]
MapRemove(m, k) == [i \in (DOMAIN m) \ {k} |-> m[i]]
\* HashMap::extend: the entries of m2 replace those of m1 with the same key
MapExtend(m1, m2) ==
    [i \in (DOMAIN m1) \cup (DOMAIN m2) |-> IF i \in DOMAIN m2 THEN m2[i] ELSE m1[i]]

\* ------------------------------------------------------------------ Node
\* Node::new
NewNode(region) ==
    [region |-> region, elements |-> EmptyMap, children |-> <<>>, depth |-> 0, size |-> 0]

IsLeaf(n) == n.children = <<>>

\* the result of a Node operation: the node as the operation left it, and
\* the fault that stopped it, if any
Ok(n) == [node |-> n, fault |-> NoFault]
Fail(n, f) == [node |-> n, fault |-> f]

\* the four quadrant regions of Node::subdivide, in the order TL, TR, BL, BR
ChildRegions(region) ==
    LET cw == Half(region.w)
        ch == Half(region.h)
    IN  << MkRect(region.x, region.y, cw, ch),
           MkRect(region.x + cw, region.y, cw, ch),
           MkRect(region.x, region.y + ch, cw, ch),
           MkRect(region.x + cw, region.y + ch, cw, ch) >>

\* the index of the first child whose region contains `region`, 0 if none:
\* the child the loops of insert, remove and move_element stop at
FirstChild(n, region) ==
    IF IsLeaf(n) THEN 0
    ELSE IF Contains(n.children[1].region, region) THEN 1
    ELSE IF Contains(n.children[2].region, region) THEN 2
    ELSE IF Contains(n.children[3].region, region) THEN 3
    ELSE IF Contains(n.children[4].region, region) THEN 4
    ELSE 0

\* usize `size -= 1`: a debug build panics below 0, a release build wraps
SubOne(n, debug) ==
    IF n.size = 0 /\ debug THEN Fail(n, "overflow")
    ELSE Ok([n EXCEPT !.size = @ - 1])

\* the assertion with Rect::overlapps in the place of Rect::contains
InsertAssertOverlapps(n, region) == Overlapps(n.region, region)

\* the assertion that opens Node::insert
InsertAssert(n, region) == Contains(n.region, region)

RECURSIVE NodeInsert(_, _, _, _)
RECURSIVE ReInsert(_, _, _, _)

\* Node::subdivide: a fresh node (depth 0, size 0) over the same region with
\* four empty children, into which the local elements are inserted again,
\* replaces the node
Subdivide(n, cap) ==
    LET regions == ChildRegions(n.region)
        children == [i \in 1..4 |-> [NewNode(regions[i]) EXCEPT !.depth = n.depth + 1]]
        new_self == [NewNode(n.region) EXCEPT !.children = children]
    IN  ReInsert(new_self, n.elements, DOMAIN n.elements, cap)

\* the loop of Node::subdivide over self.elements (the placement of each
\* element does not depend on the others, so neither on the HashMap's order)
ReInsert(new_self, elements, todo, cap) ==
    IF todo = {} THEN Ok(new_self)
    ELSE LET id == CHOOSE i \in todo : \A j \in todo : i <= j
             r == NodeInsert(new_self, id, elements[id], cap)
         IN  IF r.fault # NoFault THEN r
             ELSE ReInsert(r.node, elements, todo \ {id}, cap)

\* Node::insert, after its assertion and its leaf-under-capacity return: the
\* node is not a leaf (or the unwrap of children panics)
InsertBelow(n, id, region, cap) ==
    LET n1 == [n EXCEPT !.size = @ + 1]
        i == FirstChild(n1, region)
    IN  IF IsLeaf(n1) THEN Fail(n1, "unwrap")
        ELSE IF i = 0 THEN Ok([n1 EXCEPT !.elements = MapInsert(@, id, region)])
        ELSE LET r == NodeInsert(n1.children[i], id, region, cap)
             IN  [node |-> [n1 EXCEPT !.children[i] = r.node], fault |-> r.fault]

\* Node::insert.  A leaf at capacity whose region has no extent subdivides
\* into four children with that same region and descends into the first,
\* which is again such a leaf: the recursion ends in a stack overflow.
NodeInsert(n, id, region, cap) ==
    IF ~InsertAssert(n, region) THEN Fail(n, "assert")
    ELSE IF IsLeaf(n) /\ MapLen(n.elements) < cap
    THEN Ok([n EXCEPT !.elements = MapInsert(@, id, region), !.size = @ + 1])
    ELSE IF IsLeaf(n) /\ MapLen(n.elements) = cap
    THEN IF n.region.w = 0 /\ n.region.h = 0 THEN Fail(n, "stack")
         ELSE LET s == Subdivide(n, cap)
              IN  IF s.fault # NoFault THEN s
                  ELSE InsertBelow(s.node, id, region, cap)
    ELSE InsertBelow(n, id, region, cap)

RECURSIVE NodeGetAll(_)
\* Node::get_all, as the multiset of the ids of the Vec it returns
NodeGetAll(n) ==
    LET local == SetToBag(DOMAIN n.elements)
        RECURSIVE below(_)
        below(i) == IF i > Len(n.children) THEN EmptyBag
                    ELSE NodeGetAll(n.children[i]) (+) below(i + 1)
    IN  local (+) below(1)

\* the child taken whole as soon as the query overlaps its region
ContainedVisitOverlapped(region, child_region) ==
    IF Overlapps(region, child_region) THEN "all" ELSE "skip"

\* what Node::get_contained does with a child: take all of it, search it, or
\* skip it
ContainedVisit(region, child_region) ==
    IF Contains(region, child_region) THEN "all"
    ELSE IF Overlapps(region, child_region) THEN "search"
    ELSE "skip"

RECURSIVE NodeGetContained(_, _)
\* Node::get_contained
NodeGetContained(n, region) ==
    LET local == SetToBag({id \in DOMAIN n.elements : Contains(region, n.elements[id])})
        RECURSIVE below(_)
        below(i) ==
            IF i > Len(n.children) THEN EmptyBag
            ELSE LET visit == ContainedVisit(region, n.children[i].region)
                 IN  (IF visit = "all" THEN NodeGetAll(n.children[i])
                      ELSE IF visit = "search" THEN NodeGetContained(n.children[i], region)
                      ELSE EmptyBag) (+) below(i + 1)
    IN  local (+) below(1)

\* the child searched only when its region contains the query
OverlappedVisitInside(region, child_region) ==
    IF Contains(region, child_region) THEN "all"
    ELSE IF Contains(child_region, region) THEN "search"
    ELSE "skip"

\* what Node::get_overlapped does with a child
OverlappedVisit(region, child_region) ==
    IF Contains(region, child_region) THEN "all"
    ELSE IF Overlapps(region, child_region) THEN "search"
    ELSE "skip"

RECURSIVE NodeGetOverlapped(_, _)
\* Node::get_overlapped
NodeGetOverlapped(n, region) ==
    LET local == SetToBag({id \in DOMAIN n.elements : Overlapps(region, n.elements[id])})
        RECURSIVE below(_)
        below(i) ==
            IF i > Len(n.children) THEN EmptyBag
            ELSE LET visit == OverlappedVisit(region, n.children[i].region)
                 IN  (IF visit = "all" THEN NodeGetAll(n.children[i])
                      ELSE IF visit = "search" THEN NodeGetOverlapped(n.children[i], region)
                      ELSE EmptyBag) (+) below(i + 1)
    IN  local (+) below(1)

\* the loop of Node::fuse: the children's elements, a later child's entry
\* replacing an earlier child's entry with the same id
ChildrenElements(children) ==
    MapExtend(MapExtend(MapExtend(children[1].elements, children[2].elements),
                        children[3].elements), children[4].elements)

\* Node::fuse.  On a leaf the first debug assertion fails in a debug build
\* and the unwrap of children panics in a release build.  On a child that is
\* not a leaf the second debug assertion fails in a debug build, the children
\* already taken; a release build drops that child's own children.
Fuse(n, debug) ==
    IF IsLeaf(n) THEN Fail(n, "fuse_leaf")
    ELSE IF debug /\ \E i \in 1..4 : ~IsLeaf(n.children[i])
    THEN Fail([n EXCEPT !.children = <<>>], "fuse_child")
    ELSE Ok([n EXCEPT !.children = <<>>,
                      !.elements = MapExtend(@, ChildrenElements(n.children))])

\* the local removal without the fuse at capacity
RemoveLocalNoFuse(n, id, cap, debug) == Ok([n EXCEPT !.elements = MapRemove(@, id)])

\* the end of Node::remove: the local removal and the fuse at capacity
RemoveLocal(n, id, cap, debug) ==
    LET n1 == [n EXCEPT !.elements = MapRemove(@, id)]
    IN  IF n1.size = cap THEN Fuse(n1, debug) ELSE Ok(n1)

RECURSIVE NodeRemove(_, _, _, _, _)
\* Node::remove
NodeRemove(n, id, region, cap, debug) ==
    LET d == SubOne(n, debug)
        i == FirstChild(n, region)
    IN  IF d.fault # NoFault THEN d
        ELSE IF i = 0 THEN RemoveLocal(d.node, id, cap, debug)
        ELSE LET r == NodeRemove(n.children[i], id, region, cap, debug)
                 n1 == [d.node EXCEPT !.children[i] = r.node]
             IN  IF r.fault # NoFault THEN Fail(n1, r.fault)
                 ELSE RemoveLocal(n1, id, cap, debug)

\* `self.size -= 1; self.insert(id, new_region, ..)` of Node::move_element
Reinsert(n, id, new_region, cap, debug) ==
    LET d == SubOne(n, debug)
    IN  IF d.fault # NoFault THEN d
        ELSE NodeInsert(d.node, id, new_region, cap)

RECURSIVE NodeMoveElement(_, _, _, _, _, _)
\* Node::move_element
NodeMoveElement(n, id, old_region, new_region, cap, debug) ==
    LET i == FirstChild(n, old_region)
    IN  IF i = 0
        THEN Reinsert([n EXCEPT !.elements = MapRemove(@, id)], id, new_region, cap, debug)
        ELSE IF Contains(n.children[i].region, new_region)
        THEN LET r == NodeMoveElement(n.children[i], id, old_region, new_region, cap, debug)
             IN  [node |-> [n EXCEPT !.children[i] = r.node], fault |-> r.fault]
        ELSE LET r == NodeRemove(n.children[i], id, old_region, cap, debug)
                 n1 == [n EXCEPT !.children[i] = r.node]
             IN  IF r.fault # NoFault THEN Fail(n1, r.fault)
                 ELSE Reinsert(n1, id, new_region, cap, debug)

RECURSIVE AllRecords(_)
\* every <<id, region>> a node of the subtree holds in its `elements`, with
\* the number of nodes that hold it
AllRecords(n) ==
    LET local == SetToBag({<<id, n.elements[id]>> : id \in DOMAIN n.elements})
        RECURSIVE below(_)
        below(i) == IF i > Len(n.children) THEN EmptyBag
                    ELSE AllRecords(n.children[i]) (+) below(i + 1)
    IN  local (+) below(1)

\* ------------------------------------------------------------------ Quadtree
VARIABLES
    max_node_capacity,  \* Quadtree.max_node_capacity
    root,               \* Quadtree.root
    elements,           \* Quadtree.elements: id -> [value, region]
    next_id,            \* Quadtree.next_id
    build,              \* "any" while a debug and a release build agree on the
                        \* behaviour so far, "release" once only a release build
                        \* (no overflow checks, no debug assertions) continues
    fault,              \* the panic that ended the last call, NoFault if it returned
    moves,              \* the number of move_entry calls so far
    given,              \* history: what insert was called with, per id in `elements`
    issued,             \* history: the ids insert has returned, in order
    last                \* the last call: its name and what it returned

vars == <<max_node_capacity, root, elements, next_id, build, fault, moves, given, issued, last>>

Call(op, ret) == [op |-> op, ret |-> ret]

\* Option<_>
Some(x) == <<x>>
Absent == <<>>

\* Quadtree::new
Init ==
    /\ max_node_capacity \in Caps
    /\ root = NewNode(RootRegion)
    /\ elements = EmptyMap
    /\ next_id = 0
    /\ build = "any"
    /\ fault = NoFault
    /\ moves = 0
    /\ given = EmptyMap
    /\ issued = <<>>
    /\ last = Call("new", Absent)

\* the builds the next call may run in
Builds == IF build = "any" THEN BOOLEAN ELSE {FALSE}

\* Quadtree::is_empty
IsEmpty == TRUE

\* Quadtree::size
QuadtreeSize == MapLen(elements)

\* the id taken from the number of stored elements
NewIdFromLen == MapLen(elements)

\* `let id = self.next_id` of Quadtree::insert
NewId == next_id

\* Quadtree::insert
Insert(value, region) ==
    /\ fault = NoFault
    /\ next_id < MaxId
    /\ LET id == NewId
           r == NodeInsert(root, id, region, max_node_capacity)
       IN  /\ elements' = MapInsert(elements, id, [value |-> value, region |-> region])
           /\ root' = r.node
           /\ fault' = r.fault
           /\ next_id' = IF r.fault = NoFault THEN next_id + 1 ELSE next_id
           /\ last' = Call("insert", IF r.fault = NoFault THEN Some(id) ELSE Absent)
           /\ given' = MapInsert(given, id, <<value, region>>)
           /\ issued' = IF r.fault = NoFault THEN Append(issued, id) ELSE issued
    /\ UNCHANGED <<max_node_capacity, build, moves>>

\* the removed value returned with the root's region
RemoveRetRootRegion(e) == Some(<<e.value, root.region>>)

\* what Quadtree::remove returns for the entry it took out of `elements`
RemoveRet(e) == Some(<<e.value, e.region>>)

\* root.size decremented before the id is looked up
RemoveInEager(id, debug, r) ==
    IF id \in DOMAIN elements
    THEN /\ elements' = MapRemove(elements, id)
         /\ root' = r[debug].node
         /\ fault' = r[debug].fault
         /\ build' = IF r[TRUE] # r[FALSE] /\ ~debug THEN "release" ELSE build
         /\ last' = Call("remove", IF r[debug].fault = NoFault
                                   THEN Some(<<elements[id].value, elements[id].region>>)
                                   ELSE Absent)
    ELSE /\ last' = Call("remove", Absent)
         /\ root' = [root EXCEPT !.size = @ - 1]
         /\ UNCHANGED <<elements, fault, build>>

\* Quadtree::remove, `r` being the outcome of root.remove in a debug build
\* (debug = TRUE) or in a release build
RemoveIn(id, debug, r) ==
    IF id \in DOMAIN elements
    THEN /\ elements' = MapRemove(elements, id)
         /\ root' = r[debug].node
         /\ fault' = r[debug].fault
         /\ build' = IF r[TRUE] # r[FALSE] /\ ~debug THEN "release" ELSE build
         /\ last' = Call("remove", IF r[debug].fault = NoFault
                                   THEN RemoveRet(elements[id]) ELSE Absent)
    ELSE /\ last' = Call("remove", Absent)
         /\ UNCHANGED <<root, elements, fault, build>>

Remove(id) ==
    /\ fault = NoFault
    /\ LET r == [debug \in BOOLEAN |->
                    IF id \in DOMAIN elements
                    THEN NodeRemove(root, id, elements[id].region, max_node_capacity, debug)
                    ELSE Ok(root)]
       IN  \E debug \in Builds : RemoveIn(id, debug, r)
    /\ given' = MapRemove(given, id)
    /\ UNCHANGED <<max_node_capacity, next_id, moves, issued>>

\* Quadtree::move_element
QuadtreeMoveElement(id, old_region, new_region, debug) ==
    NodeMoveElement(root, id, old_region, new_region, max_node_capacity, debug)

\* Quadtree::entry_mut(id) and EntryMut::move_entry(new_region) on it: the id
\* is looked up in `elements` for the old region, which panics on a missing id
MoveEntry(id, new_region) ==
    /\ fault = NoFault
    /\ moves < MaxMoves
    /\ moves' = moves + 1
    /\ IF id \in DOMAIN elements
       THEN LET r == [debug \in BOOLEAN |->
                        QuadtreeMoveElement(id, elements[id].region, new_region, debug)]
            IN  \E debug \in Builds :
                    /\ root' = r[debug].node
                    /\ fault' = r[debug].fault
                    /\ build' = IF r[TRUE] # r[FALSE] /\ ~debug THEN "release" ELSE build
       ELSE /\ fault' = "index"
            /\ UNCHANGED <<root, build>>
    /\ last' = Call("move_entry", Absent)
    /\ UNCHANGED <<max_node_capacity, elements, next_id, given, issued>>

\* the map of the returned ids to `elements`: indexing a missing id panics
Resolve(ids) == IF BagToSet(ids) \subseteq DOMAIN elements THEN NoFault ELSE "index"

\* Quadtree::get_contained and Quadtree::get_contained_mut: the ids the
\* returned references stand for
GetContained(region) ==
    /\ fault = NoFault
    /\ LET ids == NodeGetContained(root, region)
       IN  /\ fault' = Resolve(ids)
           /\ last' = Call("get_contained", ids)
    /\ UNCHANGED <<max_node_capacity, root, elements, next_id, build, moves, given, issued>>

\* Quadtree::get_overlapped and Quadtree::get_overlapped_mut
GetOverlapped(region) ==
    /\ fault = NoFault
    /\ LET ids == NodeGetOverlapped(root, region)
       IN  /\ fault' = Resolve(ids)
           /\ last' = Call("get_overlapped", ids)
    /\ UNCHANGED <<max_node_capacity, root, elements, next_id, build, moves, given, issued>>

\* ------------------------------------------------------------------ Node, called directly
\* The calls of the node tests: `root` is the node under test and the caller
\* numbers its ids from 0.  `given` is the caller's record of the region it
\* last gave the node for each id it has inserted and not removed, which is
\* the region it passes to remove and as old_region to move_element.

\* the region the caller last gave for id
GivenRegion(id) == given[id][2]

\* node.insert(id, region, max_node_capacity) with the next unused id
CallInsert(region) ==
    /\ fault = NoFault
    /\ Len(issued) < MaxId
    /\ LET id == Len(issued)
           r == NodeInsert(root, id, region, max_node_capacity)
       IN  /\ root' = r.node
           /\ fault' = r.fault
           /\ given' = MapInsert(given, id, <<"a", region>>)
           /\ issued' = Append(issued, id)
           /\ last' = Call("Node::insert", <<id, region>>)
    /\ UNCHANGED <<max_node_capacity, elements, next_id, build, moves>>

\* node.remove(id, region, max_node_capacity)
CallRemove(id) ==
    /\ fault = NoFault
    /\ id \in DOMAIN given
    /\ LET r == [debug \in BOOLEAN |->
                    NodeRemove(root, id, GivenRegion(id), max_node_capacity, debug)]
       IN  \E debug \in Builds :
               /\ root' = r[debug].node
               /\ fault' = r[debug].fault
               /\ build' = IF r[TRUE] # r[FALSE] /\ ~debug THEN "release" ELSE build
    /\ given' = MapRemove(given, id)
    /\ last' = Call("Node::remove", <<id, GivenRegion(id)>>)
    /\ UNCHANGED <<max_node_capacity, elements, next_id, moves, issued>>

\* node.move_element(id, old_region, new_region, max_node_capacity)
CallMoveElement(id, new_region) ==
    /\ fault = NoFault
    /\ moves < MaxMoves
    /\ id \in DOMAIN given
    /\ LET r == [debug \in BOOLEAN |->
                    NodeMoveElement(root, id, GivenRegion(id), new_region,
                                    max_node_capacity, debug)]
       IN  \E debug \in Builds :
               /\ root' = r[debug].node
               /\ fault' = r[debug].fault
               /\ build' = IF r[TRUE] # r[FALSE] /\ ~debug THEN "release" ELSE build
    /\ moves' = moves + 1
    /\ given' = MapInsert(given, id, <<"a", new_region>>)
    /\ last' = Call("Node::move_element", <<id, new_region>>)
    /\ UNCHANGED <<max_node_capacity, elements, next_id, issued>>

\* ------------------------------------------------------------------ specifications
\* insert, remove and move_entry
DoInsert == \E r \in Regions : Insert("a", r)
DoRemove == \E id \in Ids : Remove(id)
DoMoveEntry == \E id \in Ids, r \in BoxRegions : MoveEntry(id, r)

Next ==
    \/ DoInsert
    \/ DoRemove
    \/ DoMoveEntry

Spec == Init /\ [][Next]_vars

\* insert and remove alone, with every value
DoInsertAny == \E v \in Values, r \in BoxRegions \cup OutRegions : Insert(v, r)

NextIR ==
    \/ DoInsertAny
    \/ DoRemove

SpecIR == Init /\ [][NextIR]_vars

\* the queries on the trees that insert and remove build
DoInsertIn == \E r \in InRegions : Insert("a", r)
DoGetContained == \E q \in Queries : GetContained(q)
DoGetOverlapped == \E q \in Queries : GetOverlapped(q)

NextQuery ==
    \/ DoInsertIn
    \/ DoRemove
    \/ DoGetContained
    \/ DoGetOverlapped

SpecQuery == Init /\ [][NextQuery]_vars

\* insert and remove with regions that have no extent
DoInsertPoint == \E r \in PointRegions : Insert("a", r)

NextPoint ==
    \/ DoInsertPoint
    \/ DoRemove

SpecPoint == Init /\ [][NextPoint]_vars

\* a node called directly
DoCallInsert == \E r \in InRegions : CallInsert(r)
DoCallRemove == \E id \in Ids : CallRemove(id)
DoCallMoveElement == \E id \in Ids, r \in InRegions : CallMoveElement(id, r)

NextNode ==
    \/ DoCallInsert
    \/ DoCallRemove
    \/ DoCallMoveElement

SpecNode == Init /\ [][NextNode]_vars

\* ------------------------------------------------------------------ properties
\* the records of the store, each once
StoreRecords == SetToBag({<<id, elements[id].region>> : id \in DOMAIN elements})

NoDuplicate(bag) == \A x \in BagToSet(bag) : CopiesIn(x, bag) = 1

\* the sum of the children's `size`, 0 for a leaf
ChildrenSize(n) ==
    IF IsLeaf(n) THEN 0
    ELSE n.children[1].size + n.children[2].size + n.children[3].size + n.children[4].size

RECURSIVE Nodes(_)
\* the nodes of the subtree
Nodes(n) == {n} \cup UNION { Nodes(n.children[i]) : i \in 1..Len(n.children) }

\* every id the node holds lies within the node's region and, when the node
\* has children, within no child's region
HeldDeepest(n) ==
    \A id \in DOMAIN n.elements :
        /\ Contains(n.region, n.elements[id])
        /\ ~IsLeaf(n) => \A i \in 1..4 : ~Contains(n.children[i].region, n.elements[id])

\* each id of the node sits in a child exactly when some child's region
\* contains its region
SplitByChildren(n, records) ==
    \A rec \in BagToSet(records) :
        (rec[1] \notin DOMAIN n.elements)
            <=> (\E i \in 1..4 : Contains(n.children[i].region, rec[2]))

\* the records of the subtree that are not of id
OtherRecords(n, id) ==
    LET all == AllRecords(n)
    IN  [rec \in {x \in BagToSet(all) : x[1] # id} |-> CopiesIn(rec, all)]

\* rectangles with nonnegative extents: the regions and queries above, and a
\* segment on the boundary between the root's two upper quadrants
Rectangles == Regions \cup Queries \cup { MkRect(2, 0, 0, 1) }

\* the children of n whose region contains r
ChildrenContaining(n, r) == { i \in 1..4 : Contains(n.children[i].region, r) }

RECURSIVE DepthIsDistance(_, _)
\* every node of the subtree has the depth of its distance from the root,
\* n being at distance d
DepthIsDistance(n, d) ==
    /\ n.depth = d
    /\ \A i \in 1..Len(n.children) : DepthIsDistance(n.children[i], d + 1)

RECURSIVE SameTree(_, _)
\* two subtrees have the same nodes, each with the same region, the same
\* local elements, the same size and, both or neither, children
SameTree(a, b) ==
    /\ a.region = b.region
    /\ a.elements = b.elements
    /\ a.size = b.size
    /\ Len(a.children) = Len(b.children)
    /\ \A i \in 1..Len(a.children) : SameTree(a.children[i], b.children[i])

\* I3 at one node
SizeIsCount(n) == n.size = MapLen(n.elements) + ChildrenSize(n)

\* a leaf holds at most max_node_capacity elements, a node with children
\* has a size above it
WithinCapacity(n) ==
    IF IsLeaf(n) THEN MapLen(n.elements) <= max_node_capacity
    ELSE n.size > max_node_capacity

\* C1: after move_entry(new_region) on a live id has returned, the store's
\* region for the id is new_region and the Node tree holds the id with
\* new_region
C1_MoveEntryUpdatesBoth ==
    [][\A id \in Ids, r \in BoxRegions :
          (last'.op = "move_entry" /\ id \in DOMAIN elements /\ MoveEntry(id, r)
             /\ fault' = NoFault)
          => /\ elements'[id].region = r
             /\ BagIn(<<id, r>>, AllRecords(root'))]_vars

\* C2: after any calls of insert, remove and move_entry that returned, the
\* Node tree holds exactly the store's ids, each at one node and with the
\* store's region
C2_TreeMirrorsStore == fault = NoFault => AllRecords(root) = StoreRecords

\* C3: after any calls of insert, remove and move_entry that returned,
\* size() is the number of entries of the store and is root.size
C3_SizeAgrees ==
    fault = NoFault => (QuadtreeSize = MapLen(elements) /\ QuadtreeSize = root.size)

\* C4: in every state insert, remove and move_entry reach, no call of
\* get_contained, get_contained_mut, get_overlapped or get_overlapped_mut
\* returns an id twice
C4_NoIdTwice ==
    fault = NoFault =>
        \A q \in Queries : /\ NoDuplicate(NodeGetContained(root, q))
                           /\ NoDuplicate(NodeGetOverlapped(root, q))

\* C5: on every tree built by inserts and removes, get_contained(Q) returns
\* exactly the stored ids whose region Q contains, each once
C5_GetContainedExact ==
    \A q \in Queries :
        NodeGetContained(root, q) =
            SetToBag({id \in DOMAIN elements : Contains(q, elements[id].region)})

C5_Witness ==
    /\ last.op = "get_contained"
    /\ ~IsLeaf(root)
    /\ BagToSet(last.ret) # {}
    /\ BagToSet(last.ret) # DOMAIN elements
    /\ \E i \in 1..4 : root.children[i].size > 0 /\ BagToSet(last.ret) \cap DOMAIN root.elements # {}

\* C6: on every tree built by inserts and removes, get_overlapped(Q) returns
\* exactly the stored ids whose region overlaps Q, each once
C6_GetOverlappedExact ==
    \A q \in Queries :
        NodeGetOverlapped(root, q) =
            SetToBag({id \in DOMAIN elements : Overlapps(q, elements[id].region)})

C6_Witness ==
    /\ last.op = "get_overlapped"
    /\ ~IsLeaf(root)
    /\ BagToSet(last.ret) # {}
    /\ BagToSet(last.ret) # DOMAIN elements
    /\ \E i \in 1..4 : root.children[i].size > 0 /\ BagToSet(last.ret) \cap DOMAIN root.elements # {}

\* C7: remove(id) returns the value and the region insert was given when it
\* returned id, whatever inserts and removes of other ids came in between
C7_RoundTrip ==
    [][\A id \in Ids :
          (last'.op = "remove" /\ id \in DOMAIN elements /\ Remove(id) /\ fault' = NoFault)
          => last'.ret = Some(given[id])]_vars

C7_Witness ==
    /\ last.op = "remove"
    /\ last.ret # Absent
    /\ next_id = MaxId
    /\ ~IsLeaf(root)

\* C8: remove(id) of an id the store does not hold returns None without a
\* fault and changes neither the store, nor next_id, nor the Node tree
C8_RemoveAbsent ==
    [][\A id \in Ids :
          (id \notin DOMAIN elements /\ Remove(id))
          => /\ last'.ret = Absent
             /\ fault' = NoFault
             /\ UNCHANGED <<elements, next_id, root>>]_vars

C8_Witness ==
    /\ last.op = "remove"
    /\ last.ret = Absent
    /\ fault = NoFault
    /\ ~IsLeaf(root)
    /\ QuadtreeSize < next_id

\* C9: insert of a region the root's region does not contain ends in the
\* assertion's panic, and the Node tree does not hold the id
C9_InsertOutside ==
    [][\A v \in Values, r \in Regions :
          (~Contains(root.region, r) /\ Insert(v, r))
          => /\ fault' = "assert"
             /\ \A rec \in BagToSet(AllRecords(root')) : rec[1] # NewId]_vars

C9_Witness ==
    /\ last.op = "insert"
    /\ fault = "assert"
    /\ ~IsLeaf(root)

\* C10: every id insert returns is greater than every id it returned before
C10_IdsIncrease ==
    \A i, j \in 1..Len(issued) : i < j => issued[i] < issued[j]

C10_Witness ==
    /\ Len(issued) = MaxId
    /\ QuadtreeSize < MaxId
    /\ last.op = "insert"

\* C11: every insert of a region the root's region contains returns an id,
\* whatever the capacity and the tree, also when more than max_node_capacity
\* stored regions are identical or have no extent
C11_InsertReturns ==
    [][\A r \in PointRegions :
          (Contains(root.region, r) /\ Insert("a", r))
          => (fault' = NoFault /\ last'.ret = Some(NewId))]_vars

\* C12: is_empty() is true exactly when size() is 0, in every state inserts
\* and removes reach
C12_IsEmptyIffNoElements == IsEmpty <=> (QuadtreeSize = 0)

\* C13: in every state insert, remove and move_entry reach, the size of
\* every node is the number of its local elements plus its children's sizes
C13_SizeIsCount == fault = NoFault => \A n \in Nodes(root) : SizeIsCount(n)

\* C15: in no execution of insert, remove and move_entry does fuse run on a
\* leaf or on a node with a child that is not a leaf
C15_FusePrecondition == fault \notin {"fuse_leaf", "fuse_child"}

\* C20: with max_node_capacity >= 1, in every state insert, remove and
\* move_entry reach, every leaf holds at most max_node_capacity elements and
\* every node with children has a size above max_node_capacity, and insert
\* never unwraps the children of a leaf
C20_WithinCapacity ==
    max_node_capacity >= 1 =>
        /\ fault # "unwrap"
        /\ fault = NoFault => \A n \in Nodes(root) : WithinCapacity(n)

\* C14: after any calls of Node insert, remove and move_element (remove and
\* move_element given the recorded region) every id is held by a node whose
\* region contains the id's region and none of whose children's regions does;
\* and an insert into a leaf that holds exactly max_node_capacity ids leaves
\* a node with children, of size capacity + 1, in which an id sits in a child
\* exactly when some child's region contains it
C14_HeldDeepest ==
    [][fault' = NoFault =>
          /\ \A id \in DOMAIN given' :
                \E n \in Nodes(root') : /\ id \in DOMAIN n.elements
                                         /\ n.elements[id] = given'[id][2]
          /\ \A n \in Nodes(root') : HeldDeepest(n)
          /\ (last'.op = "Node::insert" /\ IsLeaf(root)
                 /\ MapLen(root.elements) = max_node_capacity)
              => /\ ~IsLeaf(root')
                 /\ root'.size = max_node_capacity + 1
                 /\ SplitByChildren(root', AllRecords(root'))]_vars

\* C16: when Node remove(id, region), region being the recorded region of id,
\* brings the size of a node with children down to exactly
\* max_node_capacity, the node ends as a leaf of that size whose local
\* elements are the records its subtree held, without the one of id
C16_RemoveFuses ==
    [][(/\ last'.op = "Node::remove"
        /\ fault' = NoFault
        /\ ~IsLeaf(root)
        /\ root.size - 1 = max_node_capacity)
       => /\ IsLeaf(root')
          /\ root'.size = max_node_capacity
          /\ AllRecords(root') = AllRecords(root) (-) SetToBag({last'.ret})]_vars

\* C17: Node move_element(id, old_region, new_region), old_region being the
\* region the node records for id: afterwards the subtree records id once,
\* with new_region, at a node whose region contains new_region and none of
\* whose children's regions does; the node's size is unchanged, and so are
\* the records of the other ids
C17_MoveElement ==
    [][(/\ last'.op = "Node::move_element"
        /\ fault' = NoFault
        /\ BagIn(<<last'.ret[1], given[last'.ret[1]][2]>>, AllRecords(root)))
       => LET id == last'.ret[1]
              new_region == last'.ret[2]
              holders == {n \in Nodes(root') : id \in DOMAIN n.elements}
          IN  /\ OtherRecords(root', id) = OtherRecords(root, id)
              /\ AllRecords(root') = OtherRecords(root', id) (+) SetToBag({<<id, new_region>>})
              /\ \A n \in holders : HeldDeepest(n)
              /\ root'.size = root.size]_vars

\* C18: for every node with children and every rectangle with nonnegative
\* extents, also of no width or height and also touching a quadrant
\* boundary, at most one child's region contains the rectangle
C18_AtMostOneChild ==
    \A n \in Nodes(root) :
        ~IsLeaf(n) => \A r \in Rectangles : Cardinality(ChildrenContaining(n, r)) <= 1

\* C19: subdivide leaves the depth of the node as it was, so in every tree
\* inserts and removes reach the depth of every node is its distance from
\* the root, also of a node created as a child and subdivided later
C19_DepthIsDistance == fault = NoFault => DepthIsDistance(root, 0)

\* C21: in every state insert, remove and move_entry reach, every id that
\* root.get_contained and root.get_overlapped return is a key of the store,
\* so that no query and no _mut query panics on its lookup
C21_QueriesResolve ==
    fault = NoFault =>
        \A q \in Queries : /\ Resolve(NodeGetContained(root, q)) = NoFault
                           /\ Resolve(NodeGetOverlapped(root, q)) = NoFault

\* C22: on every tree inserts and removes reach, remove(id) right after
\* id = insert(v, r) returns and leaves the Node tree as it was before the
\* insert: the same nodes with and without children, the same local elements
\* at every node, the same size of every node
C22_InsertRemoveRestores ==
    [][\A v \in Values, r \in Regions :
          (last'.op = "insert" /\ Insert(v, r) /\ fault' = NoFault)
          => \A debug \in BOOLEAN :
                LET removed == NodeRemove(root', NewId, elements'[NewId].region,
                                          max_node_capacity, debug)
                IN  /\ removed.fault = NoFault
                    /\ SameTree(removed.node, root)]_vars

\* an insert that subdivided the root, undone by the remove of its id
C22_Witness ==
    /\ last.op = "remove"
    /\ last.ret # Absent
    /\ fault = NoFault
    /\ Len(issued) = MaxId
    /\ DOMAIN elements = Ids \ {issued[MaxId]}
    /\ max_node_capacity = MaxId - 1
    /\ IsLeaf(root)

====
